---------------------------- MODULE Spec2Model ----------------------------
(***************************************************************************)
(* VideoCut (src/videocut.py): the export handler                          *)
(* VideoCutHandler._handle_export, run by the single-threaded HTTPServer   *)
(* of main().  One request is handled at a time; every statement of the    *)
(* handler that touches the file system, starts or waits for an external   *)
(* process, or sends the response is one step of the model.                *)
(*                                                                         *)
(* Names of the output directory are numbered: 0 is <stem>_cut<ext>, and   *)
(* k > 0 is <stem>_cut_k<ext>.  Times are counted in ticks of 1/64 s.      *)
(***************************************************************************)
EXTENDS Integers, Sequences, FiniteSets, TLC

\* The largest number of ranges in one request.
MaxSegs == 3

\* The largest output-name number the output directory can hold.
MaxIdx == 2

\* The time points a request draws "in" and "out" from: two points give
\* every shape of a range (out > in, out = in, out < in).
Times == 0..1

Ranges == [in : Times, out : Times]

RECURSIVE SeqsUpTo(_, _)
SeqsUpTo(S, n) ==
    IF n = 0 THEN {<<>>}
    ELSE LET shorter == SeqsUpTo(S, n - 1)
         IN  shorter \cup {Append(s, x) : s \in {q \in shorter : Len(q) = n - 1}, x \in S}

\* The bodies of POST /api/export: "segments" and "vflip".
SegLists == SeqsUpTo(Ranges, MaxSegs)

Names == 0..MaxIdx

VARIABLES
    pc,           \* position of the handler: "idle", a line of _handle_export, "done"
    segments,     \* data["segments"]
    vflip,        \* data["vflip"]
    output_path,  \* number of the candidate output name, -1 before it is computed
    counter,      \* the collision counter
    i,            \* index of the per-segment loop (0-based, as enumerate gives it)
    temp_dir,     \* "none" | "exists" | "removed": the directory of tempfile.mkdtemp()
    temp_files,   \* the list temp_files
    manifest,     \* the lines written to concat.txt
    result,       \* returncode of the last finished process: "none" | "zero" | "nonzero"
    log,          \* the command lines given to subprocess.run by this call, in order
    ends,         \* how each of them ended: "running" | "zero" | "nonzero" | "timeout"
    running,      \* positions in log of the processes that are alive
    files,        \* the names that exist in the output directory
    written,      \* what this call's processes left at output_path: "absent" | "empty" | "data"
    probes,       \* os.path.exists calls made by this call
    resp,         \* the response sent by this call
    sent,         \* number of responses sent by this call
    exported      \* names returned by earlier successful exports

\* The media server: VideoCutHandler._serve_video and the request loop of
\* http.server.HTTPServer that runs it.
VARIABLES
    mpc,           \* position of _serve_video: "idle", a line of it, "done"
    is_file,       \* os.path.isfile(file_path)
    file_size,     \* os.path.getsize(file_path)
    range_header,  \* the Range header: whether it is given, and the two fields around its "-"
    start,         \* first byte offset asked for
    end,           \* last byte offset asked for
    length,        \* end - start + 1
    http_status,   \* status line sent: 0 (none yet), 200, 206, 404
    headers,       \* Content-Range, Content-Length and Accept-Ranges as sent
    f_pos,         \* read cursor of the opened file, -1 while no file is open
    opens,         \* number of open() calls of this request
    remaining,     \* bytes still to send in the range loop
    reads,         \* the sizes asked of f.read, in order (-1: no size given)
    body,          \* the chunks written to wfile: <<offset in the file, bytes>>
    pending,       \* requests that reached the listening socket and wait there
    active         \* the request the server is handling: "none" | "video" | "export"

\* The editing panel of the page: the in and out points and the cut list, as
\* the script of the page keeps them.
VARIABLES
    videoPath,     \* "none" until a video is loaded, then "path"
    inPoint,       \* the in point, NoPoint while it is null
    outPoint,      \* the out point, NoPoint while it is null
    cutList,       \* the cut list: a sequence of [in, out]
    lastOp,        \* the last handler that ran: "none", "load", "in", "out", "all", "add", "remove", "clear", "show", "close", "export"
    videoDuration, \* the duration /api/video-info gave for the video, 0 before any
    modal,         \* the export dialog: "closed" | "open"
    request        \* the segments of the export request the last handler sent, if it sent one

\* One command built from one range, outside any export call.
VARIABLES
    fmt_seg,       \* the range the command is built from
    fmt_flip,      \* the flip flag it is built with
    fmt_built,     \* "none" | "single" | "segment": which builder has run
    fmt_cmd,       \* the command it gave
    fmt_dir,       \* the directory tempfile.mkdtemp() gave the call, "none" without one
    fmt_second     \* the same command built by a second call from the same inputs

\* The error message of one non-zero exit, outside any export call.
VARIABLES
    stderr_len,    \* the number of characters of result.stderr
    err_site,      \* "none" | "single" | "segment" | "concat": the test that reported
    err_text       \* the message: its wording, the segment it names, the part of stderr it holds

\* The choice of the output name, with the names written out, outside any
\* export call.
VARIABLES
    nm_source,     \* os.path.splitext(os.path.basename(source)): base and ext, as characters
    nm_files,      \* the names that exist in the output directory
    output_name,   \* the candidate name
    nm_counter,    \* the collision counter
    nm_pc          \* "idle" | "L232" | "L238" | "done"

\* The server loop with the export calls it has taken, for one source and one
\* output directory.
VARIABLES
    srv_pending,   \* the number of export requests that wait for the server
    srv_calls,     \* the export calls taken, in the order they were taken
    srv_files      \* the output names that exist in the output directory

ui == <<videoPath, inPoint, outPoint, cutList, lastOp, videoDuration, modal, request>>
srv == <<srv_pending, srv_calls, srv_files>>
nm == <<nm_source, nm_files, output_name, nm_counter, nm_pc>>
diag == <<stderr_len, err_site, err_text>>
fmt == <<fmt_seg, fmt_flip, fmt_built, fmt_cmd, fmt_dir, fmt_second>>

media == <<mpc, is_file, file_size, range_header, start, end, length, http_status,
           headers, f_pos, opens, remaining, reads, body, pending, active>>

vars == <<pc, segments, vflip, output_path, counter, i, temp_dir, temp_files,
          manifest, result, log, ends, running, files, written, probes, resp,
          sent, exported, media, ui, fmt, diag, nm, srv>>

locals == <<segments, vflip>>
naming == <<output_path, counter, probes>>
temps  == <<temp_dir, temp_files, manifest>>
procs  == <<log, ends, running, result>>
disk   == <<files, written>>
reply  == <<resp, sent>>

NoResp == [status |-> 0, error |-> "none", seg |-> 0, output |-> -1, size |-> "none"]

----------------------------------------------------------------------------
\* self._send_json(data, status)
SendJson(r) ==
    /\ resp' = r
    /\ sent' = sent + 1

ErrorResp(status, error, seg) ==
    [status |-> status, error |-> error, seg |-> seg, output |-> -1, size |-> "none"]

\* Times are counted in ticks of 1/64 s: such a time, and the difference of
\* two of them, is a float with no representation error.
TicksPerSecond == 64

\* the four decimal digits of n < 10000, leading zeros kept
Digits4(n) == <<n \div 1000, (n \div 100) % 10, (n \div 10) % 10, n % 10>>

\* Fmt4 that cuts the digits after the fourth off
Fmt4_Truncated(x) ==
    LET a == (IF x < 0 THEN -x ELSE x) * 10000
        n == a \div TicksPerSecond
    IN  [neg |-> x < 0, whole |-> n \div 10000, frac |-> Digits4(n % 10000)]

\* f"{x:.4f}" of x ticks: the sign, the whole part and four decimals, rounded
\* to the nearest 1/10000 and, of two equally near, to the even one
Fmt4(x) ==
    LET a == (IF x < 0 THEN -x ELSE x) * 10000
        q == a \div TicksPerSecond
        r == a % TicksPerSecond
        n == IF 2 * r > TicksPerSecond \/ (2 * r = TicksPerSecond /\ q % 2 = 1)
             THEN q + 1 ELSE q
    IN  [neg |-> x < 0, whole |-> n \div 10000, frac |-> Digits4(n % 10000)]

\* TempFile that gives every segment the same name
TempFile_Unnumbered(k) == <<"temp_dir", Digits4(0)>>

\* os.path.join(temp_dir, f"seg_{i:04d}.ts")
TempFile(k) == <<"temp_dir", Digits4(k)>>

\* CodecArgs with the test of the flag inverted
CodecArgs_Inverted(flip) ==
    IF ~flip THEN <<"-vf", "vflip", "-c:v", "libx264", "-preset", "medium",
                    "-crf", "18", "-c:a", "copy">>
    ELSE <<"-c", "copy">>

\* _codec_args(): re-encode with the flip filter, or stream copy
CodecArgs(flip) ==
    IF flip THEN <<"-vf", "vflip", "-c:v", "libx264", "-preset", "medium",
                   "-crf", "18", "-c:a", "copy">>
    ELSE <<"-c", "copy">>

\* the command of the single-segment branch
SingleCmd(seg, flip, out) ==
    [kind |-> "cut", seg |-> 0, input |-> "source", ss |-> Fmt4(seg.in),
     t |-> Fmt4(seg.out - seg.in), codec |-> CodecArgs(flip),
     avoid_negative_ts |-> TRUE, f |-> "", out |-> <<"output_dir", out>>]

\* SegmentCmd that keeps a count between calls and numbers the file by it
SegmentCmd_Counting(seg, k, flip) ==
    [kind |-> "cut", seg |-> k, input |-> "source", ss |-> Fmt4(seg.in),
     t |-> Fmt4(seg.out - seg.in), codec |-> CodecArgs(flip),
     avoid_negative_ts |-> TRUE, f |-> "mpegts",
     out |-> TempFile(IF fmt_built = "none" THEN k ELSE k + 1)]

\* SegmentCmd that remaps the timestamps only when it copies the streams
SegmentCmd_AvoidOnCopy(seg, k, flip) ==
    [kind |-> "cut", seg |-> k, input |-> "source", ss |-> Fmt4(seg.in),
     t |-> Fmt4(seg.out - seg.in), codec |-> CodecArgs(flip),
     avoid_negative_ts |-> ~flip, f |-> "mpegts", out |-> TempFile(k)]

\* SegmentCmd that leaves the flip flag out of the per-segment command
SegmentCmd_NoFlip(seg, k, flip) ==
    [kind |-> "cut", seg |-> k, input |-> "source", ss |-> Fmt4(seg.in),
     t |-> Fmt4(seg.out - seg.in), codec |-> <<"-c", "copy">>,
     avoid_negative_ts |-> TRUE, f |-> "mpegts", out |-> TempFile(k)]

\* the command of one iteration of the per-segment loop
SegmentCmd(seg, k, flip) ==
    [kind |-> "cut", seg |-> k, input |-> "source", ss |-> Fmt4(seg.in),
     t |-> Fmt4(seg.out - seg.in),
     codec |-> IF flip THEN <<"-vf", "vflip", "-c:v", "libx264", "-preset",
                              "medium", "-crf", "18", "-c:a", "copy">>
               ELSE <<"-c", "copy">>,
     avoid_negative_ts |-> TRUE, f |-> "mpegts", out |-> TempFile(k)]

\* an argument the command line does not have
NoArg == [neg |-> FALSE, whole |-> 0, frac |-> <<>>]

\* ConcatCmd that takes its codec arguments from the flip flag
ConcatCmd_Flip(out) ==
    [kind |-> "concat", seg |-> -1, input |-> "concat_list", ss |-> NoArg, t |-> NoArg,
     codec |-> CodecArgs(vflip), avoid_negative_ts |-> FALSE, f |-> "concat",
     out |-> <<"output_dir", out>>]

\* the concatenation command
ConcatCmd(out) ==
    [kind |-> "concat", seg |-> -1, input |-> "concat_list", ss |-> NoArg, t |-> NoArg,
     codec |-> <<"-c", "copy">>, avoid_negative_ts |-> FALSE, f |-> "concat",
     out |-> <<"output_dir", out>>]

\* subprocess.run starts the process
Start(cmd) ==
    /\ log' = Append(log, cmd)
    /\ ends' = Append(ends, "running")
    /\ running' = running \cup {Len(log) + 1}

\* Finish with a timeout that raises without killing the process
Finish_NoKill(how) ==
    /\ ends' = [ends EXCEPT ![Len(log)] = how]
    /\ running' = IF how = "timeout" THEN running ELSE running \ {Len(log)}
    /\ result' = IF how = "timeout" THEN result ELSE how
    /\ log' = log

\* subprocess.run(..., timeout=600) returns or raises: the process exits with a
\* status, or the timeout expires, the process is killed and waited for, and
\* TimeoutExpired is raised
Finish(how) ==
    /\ ends' = [ends EXCEPT ![Len(log)] = how]
    /\ running' = running \ {Len(log)}
    /\ result' = IF how = "timeout" THEN result ELSE how
    /\ log' = log

\* what a process that ended in some way may have left at the output path
Leaves(eff) ==
    /\ written' = eff
    /\ files' = IF eff = "absent" THEN files ELSE files \cup {output_path}

Effects == {"absent", "empty", "data"}
Ends == {"zero", "nonzero", "timeout"}

----------------------------------------------------------------------------
\* The media server

\* the read buffer of _serve_video
ChunkSize == 65536

\* The largest file, in read buffers.
MaxChunks == 2

\* The largest number of requests waiting at the listening socket.
MaxPending == 2

export == <<pc, segments, vflip, output_path, counter, i, temp_dir, temp_files,
            manifest, result, log, ends, running, files, written, probes, resp,
            sent, exported>>

Min(a, b) == IF a < b THEN a ELSE b
Max(a, b) == IF a > b THEN a ELSE b

\* Byte counts and offsets requests and files are drawn from: the ends of
\* each read buffer, and the 1000-byte file with the range 200-299.
Offsets ==
    {n \in {k * ChunkSize + d : k \in 0..MaxChunks, d \in {-1, 0, 1}} : n >= 0}
        \cup {200, 299, 1000}

\* The Range header "bytes=<first>-<last>", either field empty (-1 here), or
\* no Range header.
NoField == -1
NoRange == [given |-> FALSE, first |-> NoField, last |-> NoField]
RangeHeaders ==
    {NoRange} \cup [given : {TRUE}, first : Offsets \cup {NoField},
                    last : Offsets \cup {NoField}]

NoHeaders == [content_range |-> <<>>, content_length |-> -1, accept_ranges |-> "none"]

\* no request is being served
MediaIdle ==
    /\ mpc = "idle"
    /\ is_file = FALSE
    /\ file_size = 0
    /\ range_header = NoRange
    /\ start = 0
    /\ end = 0
    /\ length = 0
    /\ http_status = 0
    /\ headers = NoHeaders
    /\ f_pos = -1
    /\ opens = 0
    /\ remaining = 0
    /\ reads = <<>>
    /\ body = <<>>

\* f.read(n) at the cursor: the bytes between the cursor and the end of the
\* file, at most n of them
Available(n) == Min(n, Max(0, file_size - f_pos))

\* a client sends a request; it waits at the listening socket
Arrive ==
    /\ Len(pending) < MaxPending
    /\ \E kind \in {"video", "export"} : pending' = Append(pending, kind)
    /\ UNCHANGED <<mpc, is_file, file_size, range_header, start, end, length,
                   http_status, headers, f_pos, opens, remaining, reads, body, active>>
    /\ UNCHANGED <<export, ui, fmt, diag, nm, srv>>

\* serve_forever takes the next request when the handler of the last one has
\* returned; do_GET gives a /video/ path to _serve_video
AcceptVideo ==
    /\ active = "none"
    /\ pending # <<>>
    /\ Head(pending) = "video"
    /\ pending' = Tail(pending)
    /\ active' = "video"
    /\ \E isf \in BOOLEAN, size \in Offsets, rh \in RangeHeaders :
          /\ isf \/ size = 0
          /\ is_file' = isf
          /\ file_size' = size
          /\ range_header' = rh
    /\ mpc' = "L176"
    /\ UNCHANGED <<start, end, length, http_status, headers, f_pos, opens, remaining,
                   reads, body>>
    /\ UNCHANGED <<export, ui, fmt, diag, nm, srv>>

\* serve_forever takes a POST /api/export; do_POST runs _handle_export
AcceptExport ==
    /\ active = "none"
    /\ pending # <<>>
    /\ Head(pending) = "export"
    /\ pending' = Tail(pending)
    /\ active' = "export"
    /\ UNCHANGED <<mpc, is_file, file_size, range_header, start, end, length,
                   http_status, headers, f_pos, opens, remaining, reads, body>>
    /\ UNCHANGED <<export, ui, fmt, diag, nm, srv>>

\* _handle_export returns
ExportDone ==
    /\ active = "export"
    /\ active' = "none"
    /\ UNCHANGED <<mpc, is_file, file_size, range_header, start, end, length,
                   http_status, headers, f_pos, opens, remaining, reads, body, pending>>
    /\ UNCHANGED <<export, ui, fmt, diag, nm, srv>>

\* CheckFile without the test of the path
CheckFile_NoTest ==
    /\ mpc = "L176"
    /\ mpc' = "L184"
    /\ UNCHANGED <<is_file, file_size, range_header, start, end, length, http_status,
                   headers, f_pos, opens, remaining, reads, body, pending, active>>
    /\ UNCHANGED <<export, ui, fmt, diag, nm, srv>>

\* if not os.path.isfile(file_path): send_error(404)
CheckFile ==
    /\ mpc = "L176"
    /\ IF ~is_file
       THEN /\ http_status' = 404
            /\ mpc' = "done"
       ELSE /\ mpc' = "L184"
            /\ UNCHANGED http_status
    /\ UNCHANGED <<is_file, file_size, range_header, start, end, length, headers,
                   f_pos, opens, remaining, reads, body, pending, active>>
    /\ UNCHANGED <<export, ui, fmt, diag, nm, srv>>

\* ParseRange with length = end - start
ParseRange_ShortLength ==
    /\ mpc = "L184"
    /\ range_header.given
    /\ LET s == IF range_header.first = NoField THEN 0 ELSE range_header.first
           e == IF range_header.last = NoField THEN file_size - 1 ELSE range_header.last
       IN  /\ start' = s
           /\ end' = e
           /\ length' = e - s
    /\ mpc' = "L191"
    /\ UNCHANGED <<is_file, file_size, range_header, http_status, headers, f_pos, opens,
                   remaining, reads, body, pending, active>>
    /\ UNCHANGED <<export, ui, fmt, diag, nm, srv>>

\* ParseRange with file_size as the default of an empty last field
ParseRange_EndIsSize ==
    /\ mpc = "L184"
    /\ range_header.given
    /\ LET s == IF range_header.first = NoField THEN 0 ELSE range_header.first
           e == IF range_header.last = NoField THEN file_size ELSE range_header.last
       IN  /\ start' = s
           /\ end' = e
           /\ length' = e - s + 1
    /\ mpc' = "L191"
    /\ UNCHANGED <<is_file, file_size, range_header, http_status, headers, f_pos, opens,
                   remaining, reads, body, pending, active>>
    /\ UNCHANGED <<export, ui, fmt, diag, nm, srv>>

\* if range_header: split at "-", an empty first field is 0, an empty last
\* field is file_size - 1
ParseRange ==
    /\ mpc = "L184"
    /\ range_header.given
    /\ LET s == IF range_header.first = NoField THEN 0 ELSE range_header.first
           e == IF range_header.last = NoField THEN file_size - 1 ELSE range_header.last
       IN  /\ start' = s
           /\ end' = e
           /\ length' = e - s + 1
    /\ mpc' = "L191"
    /\ UNCHANGED <<is_file, file_size, range_header, http_status, headers, f_pos, opens,
                   remaining, reads, body, pending, active>>
    /\ UNCHANGED <<export, ui, fmt, diag, nm, srv>>

\* send_response(206) and the headers of the partial response
SendPartialHeaders ==
    /\ mpc = "L191"
    /\ http_status' = 206
    /\ headers' = [content_range |-> <<start, end, file_size>>,
                   content_length |-> length, accept_ranges |-> "bytes"]
    /\ mpc' = "L198"
    /\ UNCHANGED <<is_file, file_size, range_header, start, end, length, f_pos,
                   opens, remaining, reads, body, pending, active>>
    /\ UNCHANGED <<export, ui, fmt, diag, nm, srv>>

\* OpenSeek without f.seek(start)
OpenSeek_NoSeek ==
    /\ mpc = "L198"
    /\ opens' = opens + 1
    /\ f_pos' = 0
    /\ remaining' = length
    /\ mpc' = "L201"
    /\ UNCHANGED <<is_file, file_size, range_header, start, end, length, http_status,
                   headers, reads, body, pending, active>>
    /\ UNCHANGED <<export, ui, fmt, diag, nm, srv>>

\* open the file, f.seek(start), remaining = length
OpenSeek ==
    /\ mpc = "L198"
    /\ opens' = opens + 1
    /\ f_pos' = start
    /\ remaining' = length
    /\ mpc' = "L201"
    /\ UNCHANGED <<is_file, file_size, range_header, start, end, length, http_status,
                   headers, reads, body, pending, active>>
    /\ UNCHANGED <<export, ui, fmt, diag, nm, srv>>

\* RangeLoop that asks for all that remains in one read
RangeLoop_ReadAll ==
    /\ mpc = "L201"
    /\ IF remaining > 0
       THEN LET n == remaining
                got == Available(n)
            IN  /\ reads' = Append(reads, n)
                /\ IF got = 0
                   THEN /\ mpc' = "done"
                        /\ UNCHANGED <<body, f_pos, remaining>>
                   ELSE /\ body' = Append(body, <<f_pos, got>>)
                        /\ f_pos' = f_pos + got
                        /\ remaining' = remaining - got
                        /\ mpc' = "L201"
       ELSE /\ mpc' = "done"
            /\ UNCHANGED <<reads, body, f_pos, remaining>>
    /\ UNCHANGED <<is_file, file_size, range_header, start, end, length, http_status,
                   headers, opens, pending, active>>
    /\ UNCHANGED <<export, ui, fmt, diag, nm, srv>>

\* one turn of while remaining > 0: read min(65536, remaining), stop on an
\* empty chunk, else write it
RangeLoop ==
    /\ mpc = "L201"
    /\ IF remaining > 0
       THEN LET n == Min(ChunkSize, remaining)
                got == Available(n)
            IN  /\ reads' = Append(reads, n)
                /\ IF got = 0
                   THEN /\ mpc' = "done"
                        /\ UNCHANGED <<body, f_pos, remaining>>
                   ELSE /\ body' = Append(body, <<f_pos, got>>)
                        /\ f_pos' = f_pos + got
                        /\ remaining' = remaining - got
                        /\ mpc' = "L201"
       ELSE /\ mpc' = "done"
            /\ UNCHANGED <<reads, body, f_pos, remaining>>
    /\ UNCHANGED <<is_file, file_size, range_header, start, end, length, http_status,
                   headers, opens, pending, active>>
    /\ UNCHANGED <<export, ui, fmt, diag, nm, srv>>

\* no Range header: send_response(200) and the headers of the full response
SendFullHeaders ==
    /\ mpc = "L184"
    /\ ~range_header.given
    /\ http_status' = 200
    /\ headers' = [content_range |-> <<>>, content_length |-> file_size,
                   accept_ranges |-> "bytes"]
    /\ mpc' = "L214"
    /\ UNCHANGED <<is_file, file_size, range_header, start, end, length, f_pos,
                   opens, remaining, reads, body, pending, active>>
    /\ UNCHANGED <<export, ui, fmt, diag, nm, srv>>

\* open the file for the full response
OpenFull ==
    /\ mpc = "L214"
    /\ opens' = opens + 1
    /\ f_pos' = 0
    /\ mpc' = "L215"
    /\ UNCHANGED <<is_file, file_size, range_header, start, end, length, http_status,
                   headers, remaining, reads, body, pending, active>>
    /\ UNCHANGED <<export, ui, fmt, diag, nm, srv>>

\* FullLoop with "if" in place of "while": one chunk is sent
FullLoop_OneChunk ==
    /\ mpc = "L215"
    /\ LET got == Available(ChunkSize)
       IN  /\ reads' = Append(reads, ChunkSize)
           /\ IF got = 0
              THEN UNCHANGED <<body, f_pos>>
              ELSE /\ body' = Append(body, <<f_pos, got>>)
                   /\ f_pos' = f_pos + got
    /\ mpc' = "done"
    /\ UNCHANGED <<is_file, file_size, range_header, start, end, length, http_status,
                   headers, opens, remaining, pending, active>>
    /\ UNCHANGED <<export, ui, fmt, diag, nm, srv>>

\* one turn of while True: read 65536, stop on an empty chunk, else write it
FullLoop ==
    /\ mpc = "L215"
    /\ LET got == Available(ChunkSize)
       IN  /\ reads' = Append(reads, ChunkSize)
           /\ IF got = 0
              THEN /\ mpc' = "done"
                   /\ UNCHANGED <<body, f_pos>>
              ELSE /\ body' = Append(body, <<f_pos, got>>)
                   /\ f_pos' = f_pos + got
                   /\ mpc' = "L215"
    /\ UNCHANGED <<is_file, file_size, range_header, start, end, length, http_status,
                   headers, opens, remaining, pending, active>>
    /\ UNCHANGED <<export, ui, fmt, diag, nm, srv>>

\* _serve_video returns; the server is free for the next request
ReturnVideo ==
    /\ mpc = "done"
    /\ active' = "none"
    /\ mpc' = "idle"
    /\ is_file' = FALSE
    /\ file_size' = 0
    /\ range_header' = NoRange
    /\ start' = 0
    /\ end' = 0
    /\ length' = 0
    /\ http_status' = 0
    /\ headers' = NoHeaders
    /\ f_pos' = -1
    /\ opens' = 0
    /\ remaining' = 0
    /\ reads' = <<>>
    /\ body' = <<>>
    /\ UNCHANGED pending
    /\ UNCHANGED <<export, ui, fmt, diag, nm, srv>>

----------------------------------------------------------------------------
\* The editing panel before a video is loaded

\* null, for the in and the out point
NoPoint == -1

\* no export request sent
NoRequest == [sent |-> FALSE, segments |-> <<>>]

PanelEmpty ==
    /\ videoPath = "none"
    /\ inPoint = NoPoint
    /\ outPoint = NoPoint
    /\ cutList = <<>>
    /\ lastOp = "none"
    /\ videoDuration = 0
    /\ modal = "closed"
    /\ request = NoRequest

\* no command
NoCmd ==
    [kind |-> "none", seg |-> 0, input |-> "none", ss |-> NoArg, t |-> NoArg,
     codec |-> <<>>, avoid_negative_ts |-> FALSE, f |-> "", out |-> <<"none", 0>>]

\* no second call
NoSecond == [built |-> FALSE, cmd |-> NoCmd, dir |-> "none"]

NothingBuilt ==
    /\ fmt_seg = [in |-> 0, out |-> 0]
    /\ fmt_flip = FALSE
    /\ fmt_built = "none"
    /\ fmt_cmd = NoCmd
    /\ fmt_dir = "none"
    /\ fmt_second = NoSecond

\* the longest part of stderr an error message holds
TailLen == 300

\* no message
NoText == [error |-> "none", seg |-> 0, first |-> 0, len |-> 0]

NothingReported ==
    /\ stderr_len = 0
    /\ err_site = "none"
    /\ err_text = NoText

NoCalls ==
    /\ srv_pending = 0
    /\ srv_calls = <<>>
    /\ srv_files = {}

NothingNamed ==
    /\ nm_source = [base |-> <<>>, ext |-> <<>>]
    /\ nm_files = {}
    /\ output_name = <<>>
    /\ nm_counter = 0
    /\ nm_pc = "idle"

----------------------------------------------------------------------------
\* the server after main() has started it and before any request
Idle ==
    /\ pc = "idle"
    /\ segments = <<>>
    /\ vflip = FALSE
    /\ output_path = -1
    /\ counter = 0
    /\ i = 0
    /\ temp_dir = "none"
    /\ temp_files = <<>>
    /\ manifest = <<>>
    /\ result = "none"
    /\ log = <<>>
    /\ ends = <<>>
    /\ running = {}
    /\ files \in SUBSET Names
    /\ files # Names
    /\ written = "absent"
    /\ probes = 0
    /\ resp = NoResp
    /\ sent = 0
    /\ exported = {}
    /\ MediaIdle
    /\ pending = <<>>
    /\ active = "none"
    /\ PanelEmpty

Init ==
    /\ Idle
    /\ NothingBuilt
    /\ NothingReported
    /\ NothingNamed
    /\ NoCalls

\* do_POST: a POST /api/export arrives and _handle_export reads its body.
\* The directory holds finitely many files: a request is taken while one of
\* the names 0..MaxIdx is free, so that the collision counter stays in Names.
Receive ==
    /\ pc = "idle"
    /\ files # Names
    /\ \E segs \in SegLists, flip \in BOOLEAN :
          /\ segments' = segs
          /\ vflip' = flip
    /\ pc' = "L228"
    /\ UNCHANGED <<naming, i, temps, procs, disk, reply, exported>>
    /\ UNCHANGED <<media, ui, fmt, diag, nm, srv>>

\* CheckSegments without the emptiness test
CheckSegments_NoTest ==
    /\ pc = "L228"
    /\ output_path' = 0
    /\ counter' = 1
    /\ pc' = "L238"
    /\ UNCHANGED <<locals, probes, i, temps, procs, disk, reply, exported>>
    /\ UNCHANGED <<media, ui, fmt, diag, nm, srv>>

\* if not segments: 400
CheckSegments ==
    /\ pc = "L228"
    /\ IF segments = <<>>
       THEN /\ SendJson(ErrorResp(400, "NoSegments", 0))
            /\ pc' = "done"
            /\ UNCHANGED <<output_path, counter>>
       ELSE /\ output_path' = 0
            /\ counter' = 1
            /\ pc' = "L238"
            /\ UNCHANGED reply
    /\ UNCHANGED <<locals, probes, i, temps, procs, disk, exported>>
    /\ UNCHANGED <<media, ui, fmt, diag, nm, srv>>

\* ProbeName with "if" in place of "while": the second name is not probed
ProbeName_Once ==
    /\ pc = "L238"
    /\ probes' = probes + 1
    /\ IF output_path \in files
       THEN /\ output_path' = counter
            /\ counter' = counter + 1
       ELSE UNCHANGED <<output_path, counter>>
    /\ pc' = "L252"
    /\ UNCHANGED <<locals, i, temps, procs, disk, reply, exported>>
    /\ UNCHANGED <<media, ui, fmt, diag, nm, srv>>

\* while os.path.exists(output_path): next name
ProbeName ==
    /\ pc = "L238"
    /\ probes' = probes + 1
    /\ IF output_path \in files
       THEN /\ output_path' = counter
            /\ counter' = counter + 1
            /\ pc' = "L238"
       ELSE /\ pc' = "L252"
            /\ UNCHANGED <<output_path, counter>>
    /\ UNCHANGED <<locals, i, temps, procs, disk, reply, exported>>
    /\ UNCHANGED <<media, ui, fmt, diag, nm, srv>>

\* Branch that first drops the ranges whose out is not after their in
Branch_DropsEmpty ==
    /\ pc = "L252"
    /\ segments' = SelectSeq(segments, LAMBDA r : r.out > r.in)
    /\ pc' = IF Len(segments) = 1 THEN "L264" ELSE "L272"
    /\ UNCHANGED <<vflip, naming, i, temps, procs, disk, reply, exported>>
    /\ UNCHANGED <<media, ui, fmt, diag, nm, srv>>

\* if len(segments) == 1
Branch ==
    /\ pc = "L252"
    /\ pc' = IF Len(segments) = 1 THEN "L264" ELSE "L272"
    /\ UNCHANGED <<locals, naming, i, temps, procs, disk, reply, exported>>
    /\ UNCHANGED <<media, ui, fmt, diag, nm, srv>>

\* single segment: build the command and start it
SingleSpawn ==
    /\ pc = "L264"
    /\ Start(SingleCmd(segments[1], vflip, output_path))
    /\ pc' = "L264w"
    /\ UNCHANGED <<locals, naming, i, temps, result, disk, reply, exported>>
    /\ UNCHANGED <<media, ui, fmt, diag, nm, srv>>

\* single segment: subprocess.run returns or raises TimeoutExpired
SingleWait ==
    /\ pc = "L264w"
    /\ \E how \in Ends, eff \in Effects :
          /\ Finish(how)
          /\ Leaves(eff)
          /\ pc' = IF how = "timeout" THEN "L330" ELSE "L265"
    /\ UNCHANGED <<locals, naming, i, temps, reply, exported>>
    /\ UNCHANGED <<media, ui, fmt, diag, nm, srv>>

\* SingleCheck without the return after the error response
SingleCheck_NoReturn ==
    /\ pc = "L265"
    /\ IF result # "zero"
       THEN SendJson(ErrorResp(500, "Ffmpeg", 0))
       ELSE UNCHANGED reply
    /\ pc' = "L324"
    /\ UNCHANGED <<locals, naming, i, temps, procs, disk, exported>>
    /\ UNCHANGED <<media, ui, fmt, diag, nm, srv>>

\* if result.returncode != 0: 500
SingleCheck ==
    /\ pc = "L265"
    /\ IF result # "zero"
       THEN /\ SendJson(ErrorResp(500, "Ffmpeg", 0))
            /\ pc' = "done"
       ELSE /\ pc' = "L324"
            /\ UNCHANGED reply
    /\ UNCHANGED <<locals, naming, i, temps, procs, disk, exported>>
    /\ UNCHANGED <<media, ui, fmt, diag, nm, srv>>

\* temp_dir = tempfile.mkdtemp(), which may raise OSError
MkTemp ==
    /\ pc = "L272"
    /\ \/ /\ temp_dir' = "exists"
          /\ temp_files' = <<>>
          /\ i' = 0
          /\ pc' = "L275"
       \/ /\ pc' = "L332"
          /\ UNCHANGED <<temp_dir, temp_files, i>>
    /\ UNCHANGED <<locals, naming, manifest, procs, disk, reply, exported>>
    /\ UNCHANGED <<media, ui, fmt, diag, nm, srv>>

\* SegSpawn walking the list from its end
SegSpawn_Reversed ==
    /\ pc = "L275"
    /\ i < Len(segments)
    /\ temp_files' = Append(temp_files, TempFile(i))
    /\ Start(SegmentCmd(segments[Len(segments) - i], i, vflip))
    /\ pc' = "L295w"
    /\ UNCHANGED <<locals, naming, i, temp_dir, manifest, result, disk, reply, exported>>
    /\ UNCHANGED <<media, ui, fmt, diag, nm, srv>>

\* one iteration of for i, seg in enumerate(segments): build and start
SegSpawn ==
    /\ pc = "L275"
    /\ i < Len(segments)
    /\ temp_files' = Append(temp_files, TempFile(i))
    /\ Start(SegmentCmd(segments[i + 1], i, vflip))
    /\ pc' = "L295w"
    /\ UNCHANGED <<locals, naming, i, temp_dir, manifest, result, disk, reply, exported>>
    /\ UNCHANGED <<media, ui, fmt, diag, nm, srv>>

\* SegWait that starts the process and does not wait for it (Popen for run)
SegWait_NoWait ==
    /\ pc = "L295w"
    /\ result' = "zero"
    /\ pc' = "L296"
    /\ UNCHANGED <<locals, naming, i, temps, log, ends, running, disk, reply, exported>>
    /\ UNCHANGED <<media, ui, fmt, diag, nm, srv>>

\* per-segment subprocess.run returns or raises TimeoutExpired
SegWait ==
    /\ pc = "L295w"
    /\ \E how \in Ends :
          /\ Finish(how)
          /\ pc' = IF how = "timeout" THEN "L330" ELSE "L296"
    /\ UNCHANGED <<locals, naming, i, temps, disk, reply, exported>>
    /\ UNCHANGED <<media, ui, fmt, diag, nm, srv>>

\* SegCheck that runs a failed segment again
SegCheck_Retry ==
    /\ pc = "L296"
    /\ i' = IF result # "zero" THEN i ELSE i + 1
    /\ pc' = "L275"
    /\ UNCHANGED <<locals, naming, temps, procs, disk, reply, exported>>
    /\ UNCHANGED <<media, ui, fmt, diag, nm, srv>>

\* SegCheck that ignores the return code
SegCheck_Ignore ==
    /\ pc = "L296"
    /\ i' = i + 1
    /\ pc' = "L275"
    /\ UNCHANGED <<locals, naming, temps, procs, disk, reply, exported>>
    /\ UNCHANGED <<media, ui, fmt, diag, nm, srv>>

\* if result.returncode != 0: rmtree, 500 naming segment i+1; else next segment
SegCheck ==
    /\ pc = "L296"
    /\ IF result # "zero"
       THEN /\ temp_dir' = "removed"
            /\ SendJson(ErrorResp(500, "Segment", i + 1))
            /\ pc' = "done"
            /\ UNCHANGED i
       ELSE /\ i' = i + 1
            /\ pc' = "L275"
            /\ UNCHANGED <<temp_dir, reply>>
    /\ UNCHANGED <<locals, naming, temp_files, manifest, procs, disk, exported>>
    /\ UNCHANGED <<media, ui, fmt, diag, nm, srv>>

\* the loop is over: write concat.txt, which may raise OSError
WriteManifest ==
    /\ pc = "L275"
    /\ i >= Len(segments)
    /\ \/ /\ manifest' = temp_files
          /\ pc' = "L315"
       \/ /\ pc' = "L332"
          /\ UNCHANGED manifest
    /\ UNCHANGED <<locals, naming, i, temp_dir, temp_files, procs, disk, reply, exported>>
    /\ UNCHANGED <<media, ui, fmt, diag, nm, srv>>

\* build the concatenation command and start it
ConcatSpawn ==
    /\ pc = "L315"
    /\ Start(ConcatCmd(output_path))
    /\ pc' = "L315w"
    /\ UNCHANGED <<locals, naming, i, temps, result, disk, reply, exported>>
    /\ UNCHANGED <<media, ui, fmt, diag, nm, srv>>

\* the concatenation's subprocess.run returns or raises TimeoutExpired
ConcatWait ==
    /\ pc = "L315w"
    /\ \E how \in Ends, eff \in Effects :
          /\ Finish(how)
          /\ Leaves(eff)
          /\ pc' = IF how = "timeout" THEN "L330" ELSE "L316"
    /\ UNCHANGED <<locals, naming, i, temps, reply, exported>>
    /\ UNCHANGED <<media, ui, fmt, diag, nm, srv>>

\* RmTree that keeps the directory of a failed concatenation
RmTree_OnSuccess ==
    /\ pc = "L316"
    /\ temp_dir' = IF result = "zero" THEN "removed" ELSE temp_dir
    /\ pc' = "L318"
    /\ UNCHANGED <<locals, naming, i, temp_files, manifest, procs, disk, reply, exported>>
    /\ UNCHANGED <<media, ui, fmt, diag, nm, srv>>

\* shutil.rmtree(temp_dir, ignore_errors=True)
RmTree ==
    /\ pc = "L316"
    /\ temp_dir' = "removed"
    /\ pc' = "L318"
    /\ UNCHANGED <<locals, naming, i, temp_files, manifest, procs, disk, reply, exported>>
    /\ UNCHANGED <<media, ui, fmt, diag, nm, srv>>

\* if result.returncode != 0: 500
ConcatCheck ==
    /\ pc = "L318"
    /\ IF result # "zero"
       THEN /\ SendJson(ErrorResp(500, "Concat", 0))
            /\ pc' = "done"
       ELSE /\ pc' = "L324"
            /\ UNCHANGED reply
    /\ UNCHANGED <<locals, naming, i, temps, procs, disk, exported>>
    /\ UNCHANGED <<media, ui, fmt, diag, nm, srv>>

\* file_size = os.path.getsize(output_path), which raises when the file is not
\* there; otherwise the success response
Stat ==
    /\ pc = "L324"
    /\ IF output_path \in files
       THEN /\ SendJson([status |-> 200, error |-> "none", seg |-> 0,
                         output |-> output_path, size |-> written])
            /\ pc' = "done"
       ELSE /\ pc' = "L332"
            /\ UNCHANGED reply
    /\ UNCHANGED <<locals, naming, i, temps, procs, disk, exported>>
    /\ UNCHANGED <<media, ui, fmt, diag, nm, srv>>

\* HandleTimeout that swallows the exception and sends nothing
HandleTimeout_NoReply ==
    /\ pc = "L330"
    /\ pc' = "done"
    /\ UNCHANGED <<locals, naming, i, temps, procs, disk, reply, exported>>
    /\ UNCHANGED <<media, ui, fmt, diag, nm, srv>>

\* except subprocess.TimeoutExpired: 500
HandleTimeout ==
    /\ pc = "L330"
    /\ SendJson(ErrorResp(500, "Timeout", 0))
    /\ pc' = "done"
    /\ UNCHANGED <<locals, naming, i, temps, procs, disk, exported>>
    /\ UNCHANGED <<media, ui, fmt, diag, nm, srv>>

\* except Exception as e: 500
HandleException ==
    /\ pc = "L332"
    /\ SendJson(ErrorResp(500, "Exception", 0))
    /\ pc' = "done"
    /\ UNCHANGED <<locals, naming, i, temps, procs, disk, exported>>
    /\ UNCHANGED <<media, ui, fmt, diag, nm, srv>>

\* _handle_export returns; the server waits for the next request
Return ==
    /\ pc = "done"
    /\ pc' = "idle"
    /\ exported' = IF resp.status = 200 THEN exported \cup {resp.output} ELSE exported
    /\ segments' = <<>>
    /\ vflip' = FALSE
    /\ output_path' = -1
    /\ counter' = 0
    /\ i' = 0
    /\ temp_dir' = "none"
    /\ temp_files' = <<>>
    /\ manifest' = <<>>
    /\ result' = "none"
    /\ log' = <<>>
    /\ ends' = <<>>
    /\ running' = {}
    /\ written' = "absent"
    /\ probes' = 0
    /\ resp' = NoResp
    /\ sent' = 0
    /\ UNCHANGED files
    /\ UNCHANGED <<media, ui, fmt, diag, nm, srv>>

Next ==
    \/ Receive
    \/ CheckSegments
    \/ ProbeName
    \/ Branch
    \/ SingleSpawn
    \/ SingleWait
    \/ SingleCheck
    \/ MkTemp
    \/ SegSpawn
    \/ SegWait
    \/ SegCheck
    \/ WriteManifest
    \/ ConcatSpawn
    \/ ConcatWait
    \/ RmTree
    \/ ConcatCheck
    \/ Stat
    \/ HandleTimeout
    \/ HandleException
    \/ Return

Spec == Init /\ [][Next]_vars

\* The steps of a call that has been received.  The handler runs in the
\* server's thread, which is not stopped, so its next statement is always
\* executed; a process that has been started exits, or subprocess.run stops it
\* when timeout=600 expires.  Nothing makes a request arrive.
Handle ==
    \/ CheckSegments
    \/ ProbeName
    \/ Branch
    \/ SingleSpawn
    \/ SingleWait
    \/ SingleCheck
    \/ MkTemp
    \/ SegSpawn
    \/ SegWait
    \/ SegCheck
    \/ WriteManifest
    \/ ConcatSpawn
    \/ ConcatWait
    \/ RmTree
    \/ ConcatCheck
    \/ Stat
    \/ HandleTimeout
    \/ HandleException

\* One call in every output directory that has a free name: what the handler
\* does depends on the request and on the directory alone.
NextCall ==
    \/ Receive
    \/ Handle

SpecLive == Init /\ [][NextCall]_vars /\ WF_vars(Handle)

\* The media server alone: the export handler's own state stays as a server
\* that has taken no export has it.
InitMedia ==
    /\ Init
    /\ files = {}

NextMedia ==
    \/ Arrive
    \/ AcceptVideo
    \/ AcceptExport
    \/ ExportDone
    \/ CheckFile
    \/ ParseRange
    \/ SendPartialHeaders
    \/ OpenSeek
    \/ RangeLoop
    \/ SendFullHeaders
    \/ OpenFull
    \/ FullLoop
    \/ ReturnVideo

SpecMedia == InitMedia /\ [][NextMedia]_vars

\* The handler of a range request is not stopped in its loop: the next turn
\* of the loop is always taken.
SpecMediaFair == SpecMedia /\ WF_vars(RangeLoop)

----------------------------------------------------------------------------
\* The editing panel: the handlers of the page that change the in and out
\* points and the cut list

\* The largest value of video.currentTime, which is also videoDuration.
MaxTime == 2

\* The longest cut list.
MaxCuts == 3

PlayTimes == 0..MaxTime

\* s with x put after the last element whose "in" is not larger: s is sorted
InsertByIn(x, s) ==
    LET k == Cardinality({j \in DOMAIN s : s[j].in <= x.in})
    IN  SubSeq(s, 1, k) \o <<x>> \o SubSeq(s, k + 1, Len(s))

\* list.sort((a, b) => a.in - b.in): ascending by "in", elements with the
\* same "in" left in the order they had
RECURSIVE SortByIn(_)
SortByIn(s) ==
    IF s = <<>> THEN <<>>
    ELSE InsertByIn(s[Len(s)], SortByIn(SubSeq(s, 1, Len(s) - 1)))

\* the durations /api/video-info may give: float(fmt.get("duration", 0))
Durations == 0..MaxTime

\* loadVideo(path): /api/video-info answers with an error and nothing is
\* changed, or the video is taken with its duration and the points and the
\* list are reset. The button is under the export dialog while that is open.
LoadVideo ==
    /\ modal = "closed"
    /\ \/ /\ videoPath' = "path"
          /\ \E duration \in Durations : videoDuration' = duration
          /\ inPoint' = NoPoint
          /\ outPoint' = NoPoint
          /\ cutList' = <<>>
          /\ lastOp' = "load"
       \/ /\ lastOp' = "load"
          /\ UNCHANGED <<videoPath, videoDuration, inPoint, outPoint, cutList>>
    /\ request' = NoRequest
    /\ UNCHANGED modal
    /\ UNCHANGED <<export, media, fmt, diag, nm, srv>>

\* setInPoint(), by its button or by the key I
SetInPoint ==
    /\ videoPath # "none"
    /\ \E currentTime \in PlayTimes :
          /\ inPoint' = currentTime
          /\ outPoint' = IF outPoint # NoPoint /\ outPoint <= currentTime
                         THEN NoPoint ELSE outPoint
    /\ lastOp' = "in"
    /\ request' = NoRequest
    /\ UNCHANGED <<videoPath, cutList, videoDuration, modal>>
    /\ UNCHANGED <<export, media, fmt, diag, nm, srv>>

\* setOutPoint(), by its button or by the key O
SetOutPoint ==
    /\ videoPath # "none"
    /\ \E currentTime \in PlayTimes :
          /\ outPoint' = currentTime
          /\ inPoint' = IF inPoint # NoPoint /\ inPoint >= currentTime
                        THEN NoPoint ELSE inPoint
    /\ lastOp' = "out"
    /\ request' = NoRequest
    /\ UNCHANGED <<videoPath, cutList, videoDuration, modal>>
    /\ UNCHANGED <<export, media, fmt, diag, nm, srv>>

\* selectAll(), by its button or by the key A
SelectAll ==
    /\ videoPath # "none"
    /\ inPoint' = 0
    /\ outPoint' = videoDuration
    /\ lastOp' = "all"
    /\ request' = NoRequest
    /\ UNCHANGED <<videoPath, cutList, videoDuration, modal>>
    /\ UNCHANGED <<export, media, fmt, diag, nm, srv>>

\* AddToCutList without the sort
AddToCutList_NoSort ==
    /\ Len(cutList) < MaxCuts
    /\ IF inPoint = NoPoint \/ outPoint = NoPoint
       THEN UNCHANGED <<cutList, inPoint, outPoint>>
       ELSE IF outPoint <= inPoint
       THEN UNCHANGED <<cutList, inPoint, outPoint>>
       ELSE /\ cutList' = Append(cutList, [in |-> inPoint, out |-> outPoint])
            /\ inPoint' = NoPoint
            /\ outPoint' = NoPoint
    /\ lastOp' = "add"
    /\ request' = NoRequest
    /\ UNCHANGED <<videoPath, videoDuration, modal>>
    /\ UNCHANGED <<export, media, fmt, diag, nm, srv>>

\* AddToCutList without the test that out is after in
AddToCutList_NoOrderTest ==
    /\ Len(cutList) < MaxCuts
    /\ IF inPoint = NoPoint \/ outPoint = NoPoint
       THEN UNCHANGED <<cutList, inPoint, outPoint>>
       ELSE /\ cutList' = SortByIn(Append(cutList, [in |-> inPoint, out |-> outPoint]))
            /\ inPoint' = NoPoint
            /\ outPoint' = NoPoint
    /\ lastOp' = "add"
    /\ request' = NoRequest
    /\ UNCHANGED <<videoPath, videoDuration, modal>>
    /\ UNCHANGED <<export, media, fmt, diag, nm, srv>>

\* addToCutList(), by its button or by the key Enter: an alert and nothing
\* else unless both points are set and out is after in; then push, sort, reset
AddToCutList ==
    /\ Len(cutList) < MaxCuts
    /\ IF inPoint = NoPoint \/ outPoint = NoPoint
       THEN UNCHANGED <<cutList, inPoint, outPoint>>
       ELSE IF outPoint <= inPoint
       THEN UNCHANGED <<cutList, inPoint, outPoint>>
       ELSE /\ cutList' = SortByIn(Append(cutList, [in |-> inPoint, out |-> outPoint]))
            /\ inPoint' = NoPoint
            /\ outPoint' = NoPoint
    /\ lastOp' = "add"
    /\ request' = NoRequest
    /\ UNCHANGED <<videoPath, videoDuration, modal>>
    /\ UNCHANGED <<export, media, fmt, diag, nm, srv>>

\* removeCut(idx), idx the 0-based position of the item clicked
RemoveCut ==
    /\ modal = "closed"
    /\ \E idx \in 0..(Len(cutList) - 1) :
          cutList' = SubSeq(cutList, 1, idx) \o SubSeq(cutList, idx + 2, Len(cutList))
    /\ lastOp' = "remove"
    /\ request' = NoRequest
    /\ UNCHANGED <<videoPath, inPoint, outPoint, videoDuration, modal>>
    /\ UNCHANGED <<export, media, fmt, diag, nm, srv>>

\* clearCutList(), confirmed
ClearCutList ==
    /\ modal = "closed"
    /\ Len(cutList) # 0
    /\ cutList' = <<>>
    /\ lastOp' = "clear"
    /\ request' = NoRequest
    /\ UNCHANGED <<videoPath, inPoint, outPoint, videoDuration, modal>>
    /\ UNCHANGED <<export, media, fmt, diag, nm, srv>>

\* the segments an export is made of: the cut list, or without one the
\* selection
Segments == IF Len(cutList) > 0 THEN cutList ELSE <<[in |-> inPoint, out |-> outPoint]>>

\* showExportModal(): an alert and nothing else without a video or without
\* a cut list and a whole selection; else the dialog opens
ShowExportModal ==
    /\ modal = "closed"
    /\ IF videoPath = "none"
       THEN UNCHANGED modal
       ELSE IF Len(cutList) = 0 /\ (inPoint = NoPoint \/ outPoint = NoPoint)
       THEN UNCHANGED modal
       ELSE modal' = "open"
    /\ lastOp' = "show"
    /\ request' = NoRequest
    /\ UNCHANGED <<videoPath, inPoint, outPoint, cutList, videoDuration>>
    /\ UNCHANGED <<export, media, fmt, diag, nm, srv>>

\* closeExportModal(), by the cancel button of the dialog
CloseExportModal ==
    /\ modal = "open"
    /\ modal' = "closed"
    /\ lastOp' = "close"
    /\ request' = NoRequest
    /\ UNCHANGED <<videoPath, inPoint, outPoint, cutList, videoDuration>>
    /\ UNCHANGED <<export, media, fmt, diag, nm, srv>>

\* doExport(), by the export button of the dialog: the dialog closes and the
\* request is sent with the cut list or, without one, the selection as it is
DoExport ==
    /\ modal = "open"
    /\ modal' = "closed"
    /\ request' = [sent |-> TRUE, segments |-> Segments]
    /\ lastOp' = "export"
    /\ UNCHANGED <<videoPath, inPoint, outPoint, cutList, videoDuration>>
    /\ UNCHANGED <<export, media, fmt, diag, nm, srv>>

NextPanel ==
    \/ LoadVideo
    \/ SetInPoint
    \/ SetOutPoint
    \/ SelectAll
    \/ AddToCutList
    \/ RemoveCut
    \/ ClearCutList
    \/ ShowExportModal
    \/ CloseExportModal
    \/ DoExport

\* the page in front of a server that has taken no request
InitPanel ==
    /\ Init
    /\ files = {}

SpecPanel == InitPanel /\ [][NextPanel]_vars

----------------------------------------------------------------------------
\* One command built from one range

\* The names tempfile.mkdtemp() chooses from.
TempDirs == {"tmp_a", "tmp_b"}

\* the argument list of a command of a call whose temporary directory is dir:
\* the command with the directory written out in its target
ArgList(cmd, dir) ==
    [cmd EXCEPT !.out = IF cmd.out[1] = "temp_dir" THEN <<dir, cmd.out[2]>> ELSE cmd.out]

\* The times a range is built from, in ticks: the smallest ones, the ones
\* around one second, and 10 s and 30 s.
BuildTimes ==
    {0, 1, 2, 3, TicksPerSecond - 1, TicksPerSecond, TicksPerSecond + 1,
     10 * TicksPerSecond, 30 * TicksPerSecond}

InitBuild ==
    /\ Idle
    /\ files = {}
    /\ fmt_seg \in [in : BuildTimes, out : BuildTimes]
    /\ fmt_flip \in BOOLEAN
    /\ fmt_built = "none"
    /\ fmt_cmd = NoCmd
    /\ fmt_dir = "none"
    /\ fmt_second = NoSecond
    /\ NothingReported
    /\ NothingNamed
    /\ NoCalls

\* the command of the single-segment branch for this range
BuildSingle ==
    /\ fmt_built = "none"
    /\ fmt_cmd' = SingleCmd(fmt_seg, fmt_flip, 0)
    /\ fmt_built' = "single"
    /\ UNCHANGED <<fmt_seg, fmt_flip, fmt_dir, fmt_second>>
    /\ UNCHANGED <<export, media, ui, diag, nm, srv>>

\* the command of the per-segment loop for this range, in the directory
\* tempfile.mkdtemp() gave this call
BuildSegment ==
    /\ fmt_built = "none"
    /\ \E k \in 0..(MaxSegs - 1) : fmt_cmd' = SegmentCmd(fmt_seg, k, fmt_flip)
    /\ \E d \in TempDirs : fmt_dir' = d
    /\ fmt_built' = "segment"
    /\ UNCHANGED <<fmt_seg, fmt_flip, fmt_second>>
    /\ UNCHANGED <<export, media, ui, diag, nm, srv>>

\* a second export call with the same source, segments, flip flag and output
\* path builds the command of the same range; tempfile.mkdtemp() gives it a
\* directory of its own choice
BuildAgain ==
    /\ fmt_built # "none"
    /\ ~fmt_second.built
    /\ IF fmt_built = "single"
       THEN fmt_second' = [built |-> TRUE, cmd |-> SingleCmd(fmt_seg, fmt_flip, 0),
                           dir |-> "none"]
       ELSE \E d \in TempDirs :
               fmt_second' = [built |-> TRUE,
                              cmd |-> SegmentCmd(fmt_seg, fmt_cmd.seg, fmt_flip),
                              dir |-> d]
    /\ UNCHANGED <<fmt_seg, fmt_flip, fmt_built, fmt_cmd, fmt_dir>>
    /\ UNCHANGED <<export, media, ui, diag, nm, srv>>

NextBuild ==
    \/ BuildSingle
    \/ BuildSegment
    \/ BuildAgain

SpecBuild == InitBuild /\ [][NextBuild]_vars

----------------------------------------------------------------------------
\* The error message of one non-zero exit

\* The lengths of stderr: the shortest ones, the ones around TailLen, and
\* long ones.
StderrLens ==
    (0..5) \cup ((TailLen - 3)..(TailLen + 3))
        \cup {2 * TailLen, 2 * TailLen + 1, 1000, 5000}

\* StderrTail that takes the first characters, stderr[:300]
StderrTail_Head(n) == [first |-> 0, len |-> Min(n, TailLen)]

\* result.stderr[-300:] of n characters: where it starts in stderr and how
\* many characters it has
StderrTail(n) == [first |-> Max(0, n - TailLen), len |-> Min(n, TailLen)]

ErrorText(error, seg, n) ==
    [error |-> error, seg |-> seg, first |-> StderrTail(n).first, len |-> StderrTail(n).len]

InitDiag ==
    /\ Idle
    /\ files = {}
    /\ NothingBuilt
    /\ NothingNamed
    /\ NoCalls
    /\ stderr_len \in StderrLens
    /\ err_site = "none"
    /\ err_text = NoText

\* single segment: "ffmpegエラー: " and the tail of stderr
ReportSingle ==
    /\ err_site = "none"
    /\ err_site' = "single"
    /\ err_text' = ErrorText("Ffmpeg", 0, stderr_len)
    /\ UNCHANGED stderr_len
    /\ UNCHANGED <<export, media, ui, fmt, nm, srv>>

\* segment i: "セグメント{i+1}のエラー: " and the tail of stderr
ReportSegment ==
    /\ err_site = "none"
    /\ err_site' = "segment"
    /\ \E k \in 0..(MaxSegs - 1) : err_text' = ErrorText("Segment", k + 1, stderr_len)
    /\ UNCHANGED stderr_len
    /\ UNCHANGED <<export, media, ui, fmt, nm, srv>>

\* concatenation: "結合エラー: " and the tail of stderr
ReportConcat ==
    /\ err_site = "none"
    /\ err_site' = "concat"
    /\ err_text' = ErrorText("Concat", 0, stderr_len)
    /\ UNCHANGED stderr_len
    /\ UNCHANGED <<export, media, ui, fmt, nm, srv>>

NextDiag ==
    \/ ReportSingle
    \/ ReportSegment
    \/ ReportConcat

SpecDiag == InitDiag /\ [][NextDiag]_vars

----------------------------------------------------------------------------
\* The choice of the output name, with the names written out

DigitChars == <<"0", "1", "2", "3", "4", "5", "6", "7", "8", "9">>

\* str(k), k >= 0
RECURSIVE Dec(_)
Dec(k) ==
    IF k < 10 THEN <<DigitChars[k + 1]>>
    ELSE Dec(k \div 10) \o <<DigitChars[(k % 10) + 1]>>

\* f"{base}_cut{ext}" for k = 0 and f"{base}_cut_{k}{ext}" for k > 0
OutputName(base, ext, k) ==
    IF k = 0 THEN base \o <<"_", "c", "u", "t">> \o ext
    ELSE base \o <<"_", "c", "u", "t", "_">> \o Dec(k) \o ext

\* os.path.basename(source)
SourceName == nm_source.base \o nm_source.ext

\* The sources a name is chosen for: a plain name, names that themselves
\* look like output names, and a name without base or without extension.
Bases ==
    {<<"a">>, <<"a", "_", "c", "u", "t">>, <<"a", "_", "c", "u", "t", "_", "1">>, <<>>}

Exts == {<<>>, <<".", "m">>}

\* The source is in the output directory, with any of the candidate names
\* but one free name at least.
InitName ==
    /\ Idle
    /\ files = {}
    /\ NothingBuilt
    /\ NothingReported
    /\ NoCalls
    /\ nm_source \in [base : Bases, ext : Exts]
    /\ \E taken \in SUBSET Names :
          /\ taken # Names
          /\ nm_files = {nm_source.base \o nm_source.ext}
                            \cup {OutputName(nm_source.base, nm_source.ext, k) : k \in taken}
    /\ output_name = <<>>
    /\ nm_counter = 0
    /\ nm_pc = "L232"

\* output_name = f"{base}_cut{ext}"; counter = 1
NameFirst ==
    /\ nm_pc = "L232"
    /\ output_name' = OutputName(nm_source.base, nm_source.ext, 0)
    /\ nm_counter' = 1
    /\ nm_pc' = "L238"
    /\ UNCHANGED <<nm_source, nm_files>>
    /\ UNCHANGED <<export, media, ui, fmt, diag, srv>>

\* NameProbe without the test: the first name is taken as it is
NameProbe_NoTest ==
    /\ nm_pc = "L238"
    /\ nm_pc' = "done"
    /\ UNCHANGED <<nm_source, nm_files, output_name, nm_counter>>
    /\ UNCHANGED <<export, media, ui, fmt, diag, srv>>

\* while os.path.exists(output_path): the next name
NameProbe ==
    /\ nm_pc = "L238"
    /\ IF output_name \in nm_files
       THEN /\ output_name' = OutputName(nm_source.base, nm_source.ext, nm_counter)
            /\ nm_counter' = nm_counter + 1
            /\ nm_pc' = "L238"
       ELSE /\ nm_pc' = "done"
            /\ UNCHANGED <<output_name, nm_counter>>
    /\ UNCHANGED <<nm_source, nm_files>>
    /\ UNCHANGED <<export, media, ui, fmt, diag, srv>>

NextName ==
    \/ NameFirst
    \/ NameProbe

SpecName == InitName /\ [][NextName]_vars

----------------------------------------------------------------------------
\* The server loop and the export calls for one source and output directory

MaxCalls == 2

\* a name not selected yet
NoName == -1

InProgress(call) == call.at # "done"

InitServe ==
    /\ Idle
    /\ files = {}
    /\ NothingBuilt
    /\ NothingReported
    /\ NothingNamed
    /\ srv_pending = 0
    /\ srv_calls = <<>>
    /\ srv_files \in SUBSET Names

\* the browser posts /api/export
SrvArrive ==
    /\ srv_pending < MaxPending
    /\ Len(srv_calls) + srv_pending < MaxCalls
    /\ srv_pending' = srv_pending + 1
    /\ UNCHANGED <<srv_calls, srv_files>>
    /\ UNCHANGED <<export, media, ui, fmt, diag, nm>>

\* SrvAccept in a server that gives each request its own thread
SrvAccept_Threaded ==
    /\ srv_pending > 0
    /\ srv_pending' = srv_pending - 1
    /\ srv_calls' = Append(srv_calls, [at |-> "L232", name |-> NoName, counter |-> 0])
    /\ UNCHANGED srv_files
    /\ UNCHANGED <<export, media, ui, fmt, diag, nm>>

\* HTTPServer.serve_forever takes the next request when the handler of the
\* last one has returned
SrvAccept ==
    /\ srv_pending > 0
    /\ \A c \in DOMAIN srv_calls : ~InProgress(srv_calls[c])
    /\ srv_pending' = srv_pending - 1
    /\ srv_calls' = Append(srv_calls, [at |-> "L232", name |-> NoName, counter |-> 0])
    /\ UNCHANGED srv_files
    /\ UNCHANGED <<export, media, ui, fmt, diag, nm>>

\* output_name = f"{base}_cut{ext}"; counter = 1
SrvName ==
    \E c \in DOMAIN srv_calls :
        /\ srv_calls[c].at = "L232"
        /\ srv_calls' = [srv_calls EXCEPT ![c] = [at |-> "L238", name |-> 0, counter |-> 1]]
        /\ UNCHANGED <<srv_pending, srv_files>>
        /\ UNCHANGED <<export, media, ui, fmt, diag, nm>>

\* while os.path.exists(output_path): the next name
SrvProbe ==
    \E c \in DOMAIN srv_calls :
        /\ srv_calls[c].at = "L238"
        /\ IF srv_calls[c].name \in srv_files
           THEN srv_calls' = [srv_calls EXCEPT ![c] =
                                 [at |-> "L238", name |-> srv_calls[c].counter,
                                  counter |-> srv_calls[c].counter + 1]]
           ELSE srv_calls' = [srv_calls EXCEPT ![c].at = "L255"]
        /\ UNCHANGED <<srv_pending, srv_files>>
        /\ UNCHANGED <<export, media, ui, fmt, diag, nm>>

\* the invocations run and the handler returns, with the output written or,
\* after a failure, perhaps not
SrvRun ==
    \E c \in DOMAIN srv_calls :
        /\ srv_calls[c].at = "L255"
        /\ srv_calls' = [srv_calls EXCEPT ![c].at = "done"]
        /\ \E made \in BOOLEAN :
              srv_files' = IF made THEN srv_files \cup {srv_calls[c].name} ELSE srv_files
        /\ UNCHANGED srv_pending
        /\ UNCHANGED <<export, media, ui, fmt, diag, nm>>

NextServe ==
    \/ SrvArrive
    \/ SrvAccept
    \/ SrvName
    \/ SrvProbe
    \/ SrvRun

SpecServe == InitServe /\ [][NextServe]_vars

----------------------------------------------------------------------------
\* Properties of one export call

Multi == Len(segments) >= 2

\* every process this call has started has exited with status 0
AllZero == \A k \in DOMAIN ends : ends[k] = "zero"

\* position k of the log is the first process that did not exit with status 0
FirstFailure(k) ==
    /\ k \in DOMAIN ends
    /\ ends[k] \in {"nonzero", "timeout"}
    /\ \A j \in 1..(k - 1) : ends[j] = "zero"

\* the log holds one cut per range, in list order, and then the concatenation
SegmentsThenConcat ==
    /\ Len(log) = Len(segments) + 1
    /\ \A k \in 1..Len(segments) :
          /\ log[k].kind = "cut"
          /\ log[k].seg = k - 1
          /\ log[k].ss = Fmt4(segments[k].in)
          /\ log[k].t = Fmt4(segments[k].out - segments[k].in)
    /\ log[Len(log)].kind = "concat"

\* C1: an export whose segment list is empty ends with the validation error
\* (status 400) and, at every point of the call, has started no process,
\* created no temporary directory and probed no output name.
C1_EmptyRejected ==
    (pc # "idle" /\ segments = <<>>) =>
        /\ log = <<>>
        /\ temp_dir = "none"
        /\ probes = 0
        /\ pc \in {"L228", "done"}
        /\ pc = "done" => (resp.status = 400 /\ resp.error = "NoSegments" /\ sent = 1)

C1_Witness ==
    pc = "done" /\ segments = <<>> /\ resp.status = 400

C3_FirstFailureStops ==
    \A k \in 1..Len(segments) :
        (pc = "done" /\ Multi /\ FirstFailure(k)) =>
            /\ Len(log) = k
            /\ \A j \in DOMAIN log : log[j].kind = "cut"
            /\ temp_dir = "removed"
            /\ resp.status = 500
            /\ resp.seg = k

\* C4: when a call that created a temporary directory returns, the directory
\* is gone.
C4_TempDirRemoved ==
    (pc = "done" /\ temp_dir # "none") => temp_dir = "removed"

\* C5: in a multi-segment export a command that writes the output path is
\* started only after every per-segment command has exited with status 0, and
\* once a segment has failed nothing of this call is at the output path.
C5_OutputAfterAllSegments ==
    Multi =>
        /\ \A k \in DOMAIN log :
              log[k].out[1] = "output_dir" =>
                  /\ k = Len(segments) + 1
                  /\ \A j \in 1..(k - 1) : log[j].kind = "cut" /\ ends[j] = "zero"
        /\ (\E k \in 1..Len(segments) : FirstFailure(k)) =>
              /\ written = "absent"
              /\ output_path \notin files

C5_Witness ==
    /\ pc = "done"
    /\ Len(segments) = 3
    /\ FirstFailure(2)
    /\ output_path \notin files

\* C6: at most one process of a call is alive, and when a command is started
\* every earlier command of the call has ended.
C6_Sequential ==
    /\ Cardinality(running) <= 1
    /\ \A k \in DOMAIN log : k < Len(log) => ends[k] # "running"
    /\ \A k \in running : k = Len(log)

C6_Witness ==
    /\ Len(log) = 3
    /\ running = {3}
    /\ log[3].kind = "cut"

\* C7: a command that ran into its timeout is no longer alive, is the last
\* command of the call, and the call ends with an error response, never with
\* success.
C7_TimeoutFails ==
    \A k \in DOMAIN ends :
        ends[k] = "timeout" =>
            /\ k \notin running
            /\ k = Len(log)
            /\ pc \in {"L330", "done"}
            /\ pc = "done" => (resp.status = 500 /\ resp.error # "none" /\ sent = 1)

C7_Witness ==
    /\ pc = "done"
    /\ Multi
    /\ Len(log) = Len(segments) + 1
    /\ ends[Len(log)] = "timeout"

\* C8: a request holding a range with out <= in starts no process and ends
\* with the validation error.
C8_BadRangeRejected ==
    (\E k \in DOMAIN segments : segments[k].out <= segments[k].in) =>
        /\ log = <<>>
        /\ pc = "done" => resp.status = 400

\* C9: the name selected is the first one of _cut, _cut_1, _cut_2, ... that
\* does not exist when it is selected, and the name a successful export
\* returns is larger than, and so distinct from, every name returned before.
C9_FirstFreeName ==
    /\ pc = "L252" =>
          /\ output_path \notin files
          /\ \A n \in 0..(output_path - 1) : n \in files
    /\ (pc = "done" /\ resp.status = 200) =>
          /\ resp.output = output_path
          /\ \A n \in 0..(output_path - 1) : n \in files
          /\ \A n \in exported : n < resp.output

C9_Witness ==
    /\ pc = "done"
    /\ resp.status = 200
    /\ resp.output = 2
    /\ exported = {1}

\* C10: a call whose request holds a valid range ends with exactly one
\* response: success with an existing output file of size > 0 and no command
\* that exited non-zero, or an error of the taxonomy.
C10_OneOutcome ==
    (pc = "done" /\ \E k \in DOMAIN segments : segments[k].out > segments[k].in) =>
        /\ sent = 1
        /\ \/ /\ resp.status = 200
              /\ resp.output \in files
              /\ resp.size = "data"
              /\ AllZero
           \/ /\ resp.status \in {400, 500}
              /\ resp.error \in {"NoSegments", "Ffmpeg", "Segment", "Concat",
                                 "Timeout", "Exception"}

----------------------------------------------------------------------------
\* The phases of an export call, read off the position of the handler:
\* building is every step that prepares a command (output name, temporary
\* directory, the command line), running is a cut process being waited for and
\* its return code tested, concatenating runs from the manifest to the test of
\* the concatenation's return code, finalizing is the stat or the except branch
\* that produces the response.
Phase ==
    CASE pc = "idle" -> "Idle"
      [] pc = "L228" -> "Validating"
      [] pc \in {"L238", "L252", "L264", "L272"} -> "BuildingSegments"
      [] pc = "L275" -> IF i < Len(segments) THEN "BuildingSegments" ELSE "Concatenating"
      [] pc \in {"L264w", "L265", "L295w", "L296"} -> "RunningInvocations"
      [] pc \in {"L315", "L315w", "L316", "L318"} -> "Concatenating"
      [] pc \in {"L324", "L330", "L332"} -> "Finalizing"
      [] pc = "done" -> IF resp.status = 200 THEN "Succeeded" ELSE "Failed"

PhaseRank ==
    CASE Phase = "Idle" -> 0
      [] Phase = "Validating" -> 1
      [] Phase = "BuildingSegments" -> 2
      [] Phase = "RunningInvocations" -> 3
      [] Phase = "Concatenating" -> 4
      [] Phase = "Finalizing" -> 5
      [] Phase \in {"Succeeded", "Failed"} -> 6

Terminal == Phase \in {"Succeeded", "Failed"}

\* in a terminal phase the only step is the return of the handler; a response
\* is sent exactly by the step that reaches a terminal phase; concatenating
\* needs two segments or more
PhaseFrame ==
    /\ Terminal => (pc' = "idle")
    /\ (pc' = "idle") => Terminal
    /\ (sent' # sent /\ ~Terminal) => (Terminal' /\ sent' = 1)
    /\ (Len(log') > Len(log)) => ~Terminal
    /\ (Phase' = "Concatenating") => Len(segments') >= 2

\* C11 as stated: within a call the phases only advance in the order
\* Validating, BuildingSegments, RunningInvocations, Concatenating,
\* Finalizing, Succeeded or Failed.
C11_AsStated ==
    [][/\ PhaseFrame
       /\ ~Terminal => PhaseRank' >= PhaseRank]_vars

\* C11 as amended: the phases only advance in that order, except that a
\* multi-segment export goes back from RunningInvocations to BuildingSegments
\* once per segment, after that segment's process has exited with status 0;
\* concatenating needs two segments or more; the terminal phases are left
\* only by the return of the handler, and the response is sent on reaching one.
C11_PhaseOrder ==
    [][/\ PhaseFrame
       /\ ~Terminal =>
             \/ PhaseRank' >= PhaseRank
             \/ /\ Phase = "RunningInvocations"
                /\ Phase' = "BuildingSegments"
                /\ Len(segments) >= 2
                /\ result = "zero"
                /\ i' = i + 1]_vars

C11_Witness ==
    /\ Phase = "Succeeded"
    /\ Len(segments) = 3
    /\ Len(log) = 4

\* C12: no command is started twice in one call: the log holds at most one
\* command per segment and at most one concatenation, whatever way each ended.
C12_NoRetry ==
    /\ \A j, k \in DOMAIN log :
          (log[j].kind = log[k].kind /\ log[j].seg = log[k].seg) => j = k
    /\ \A k \in DOMAIN log :
          log[k].kind = "cut" => log[k].seg \in 0..(Len(segments) - 1)
    /\ Len(log) <= Len(segments) + 1

C12_Witness ==
    /\ pc = "done"
    /\ Len(segments) = 3
    /\ ends = <<"zero", "nonzero">>

\* Readings of an argument list
HasArg(args, a) == \E j \in DOMAIN args : args[j] = a

HasPair(args, a, b) == \E j \in 1..(Len(args) - 1) : args[j] = a /\ args[j + 1] = b

\* C13: a single-segment export with flip = false starts at most one command
\* and has started exactly one when it ends past the name selection; that
\* command carries "-c copy", no filter, no video encoder and no quality
\* setting, writes the selected output path, and no temporary directory is made.
C13_SingleCopy ==
    (pc # "idle" /\ Len(segments) = 1 /\ ~vflip) =>
        /\ Len(log) <= 1
        /\ temp_dir = "none"
        /\ pc \in {"L264w", "L265", "L324", "L330", "L332", "done"} => Len(log) = 1
        /\ \A k \in DOMAIN log :
              /\ log[k].kind = "cut"
              /\ HasPair(log[k].codec, "-c", "copy")
              /\ ~HasArg(log[k].codec, "-vf")
              /\ ~HasArg(log[k].codec, "-c:v")
              /\ ~HasArg(log[k].codec, "-crf")
              /\ ~HasArg(log[k].codec, "-preset")
              /\ log[k].out = <<"output_dir", output_path>>
              /\ log[k].f = ""

C13_Witness ==
    /\ pc = "done"
    /\ Len(segments) = 1
    /\ ~vflip
    /\ Len(log) = 1
    /\ resp.status = 200

\* C14: the codec arguments of every cut command, of either branch, are fixed
\* by the flip flag alone: the flip filter, the x264 re-encode at constant
\* quality 18 and the audio copy when it is set, plain stream copy when not.
C14_CodecByFlip ==
    \A k \in DOMAIN log :
        log[k].kind = "cut" =>
            log[k].codec = IF vflip
                           THEN <<"-vf", "vflip", "-c:v", "libx264", "-preset",
                                  "medium", "-crf", "18", "-c:a", "copy">>
                           ELSE <<"-c", "copy">>

C14_Witness ==
    /\ Len(segments) = 2
    /\ vflip
    /\ Len(log) = 2
    /\ log[2].kind = "cut"
    /\ HasPair(log[2].codec, "-vf", "vflip")

----------------------------------------------------------------------------
\* Properties of the media server

RECURSIVE BytesIn(_)
BytesIn(chunks) ==
    IF chunks = <<>> THEN 0 ELSE chunks[1][2] + BytesIn(Tail(chunks))

\* the body is the bytes of the file at offsets s..e, in order and once each
\* (nothing when e < s)
BodySpan(s, e) ==
    IF e < s THEN body = <<>>
    ELSE /\ body # <<>>
         /\ \A k \in DOMAIN body :
               /\ body[k][2] > 0
               /\ body[k][1] = s + BytesIn(SubSeq(body, 1, k - 1))
         /\ BytesIn(body) = e - s + 1

BothGiven == range_header.given /\ range_header.first # NoField /\ range_header.last # NoField

\* C15: a range request first-last with 0 <= first <= last < size on an
\* existing file is answered 206 with Content-Range first-last/size and
\* Content-Length last - first + 1, and its body is the file's bytes
\* first..last in order.
C15_RangeServed ==
    (/\ mpc = "done"
     /\ is_file
     /\ BothGiven
     /\ range_header.first <= range_header.last
     /\ range_header.last < file_size) =>
        /\ http_status = 206
        /\ headers.content_range = <<range_header.first, range_header.last, file_size>>
        /\ headers.content_length = range_header.last - range_header.first + 1
        /\ BodySpan(range_header.first, range_header.last)
        /\ BytesIn(body) = range_header.last - range_header.first + 1

C15_Witness ==
    /\ mpc = "done"
    /\ file_size = 1000
    /\ range_header = [given |-> TRUE, first |-> 200, last |-> 299]
    /\ body = <<<<200, 100>>>>
    /\ headers.content_range = <<200, 299, 1000>>

\* C16: when the last offset asked for is past the last byte of the file, no
\* chunk read or sent reaches an offset >= size, and the body is the file's
\* bytes from the first offset to the end of the file.
C16_ClippedAtEof ==
    (/\ mpc # "idle"
     /\ is_file
     /\ range_header.given
     /\ range_header.last # NoField
     /\ range_header.last > file_size - 1) =>
        /\ \A k \in DOMAIN body : body[k][1] + body[k][2] <= file_size
        /\ f_pos # -1 => f_pos <= Max(file_size, start)
        /\ mpc = "done" =>
              BodySpan(IF range_header.first = NoField THEN 0 ELSE range_header.first,
                       file_size - 1)

C16_Witness ==
    /\ mpc = "done"
    /\ file_size = 1000
    /\ range_header = [given |-> TRUE, first |-> 200, last |-> ChunkSize]
    /\ body = <<<<200, 800>>>>

\* C17: a range request that gives the first offset and no last offset is
\* answered with the span first..size-1 and Content-Length size - first, and
\* its body is the file's bytes first..size-1.
C17_OpenEndedRange ==
    (/\ is_file
     /\ range_header.given
     /\ range_header.first # NoField
     /\ range_header.last = NoField) =>
        /\ mpc \in {"L198", "L201", "done"} =>
              /\ http_status = 206
              /\ end = file_size - 1
              /\ headers.content_range = <<range_header.first, file_size - 1, file_size>>
              /\ headers.content_length = file_size - range_header.first
        /\ mpc = "done" => BodySpan(range_header.first, file_size - 1)

C17_Witness ==
    /\ mpc = "done"
    /\ file_size = 2 * ChunkSize + 1
    /\ range_header = [given |-> TRUE, first |-> 200, last |-> NoField]
    /\ body = <<<<200, ChunkSize>>, <<200 + ChunkSize, ChunkSize + 1 - 200>>>>
    /\ headers.content_length = 2 * ChunkSize + 1 - 200

\* C18: a request without a Range header on an existing file of size S is
\* answered 200 with Content-Length S and Accept-Ranges: bytes, and its body
\* is all S bytes of the file in order.
C18_FullServed ==
    (mpc = "done" /\ is_file /\ ~range_header.given) =>
        /\ http_status = 200
        /\ headers.content_length = file_size
        /\ headers.accept_ranges = "bytes"
        /\ headers.content_range = <<>>
        /\ BodySpan(0, file_size - 1)
        /\ BytesIn(body) = file_size

C18_Witness ==
    /\ mpc = "done"
    /\ ~range_header.given
    /\ file_size = 2 * ChunkSize + 1
    /\ body = <<<<0, ChunkSize>>, <<ChunkSize, ChunkSize>>, <<2 * ChunkSize, 1>>>>

\* C19: a request for a path that is no regular file ends with 404, whatever
\* its Range header, without opening or reading a file or sending file bytes.
C19_NotFound ==
    (mpc # "idle" /\ ~is_file) =>
        /\ opens = 0
        /\ f_pos = -1
        /\ reads = <<>>
        /\ body = <<>>
        /\ http_status \in {0, 404}
        /\ mpc \in {"L176", "done"}
        /\ mpc = "done" => http_status = 404

C19_Witness ==
    /\ mpc = "done"
    /\ ~is_file
    /\ range_header.given
    /\ http_status = 404

\* C20: a range request that arrives while the server is handling an export
\* or another range request is taken up without waiting for that handler to
\* return.
C20_ServedWithoutWaiting ==
    (active # "none" /\ pending # <<>> /\ Head(pending) = "video")
        => ENABLED AcceptVideo


----------------------------------------------------------------------------
\* Properties of the editing panel

\* C21: after any sequence of add, remove, clear and load-video operations
\* (and of setting the in and out points), the cut list is sorted ascending
\* by "in".
C21_CutListSorted ==
    \A j, k \in DOMAIN cutList : j < k => cutList[j].in <= cutList[k].in

\* a range was added whose "in" is smaller than that of a range added before
\* it, and one with the same "in" as another
C21_Witness ==
    /\ lastOp = "add"
    /\ Len(cutList) = 3
    /\ cutList[1] = [in |-> 0, out |-> 1]
    /\ cutList[2] = [in |-> 0, out |-> 2]
    /\ cutList[3] = [in |-> 1, out |-> 2]


----------------------------------------------------------------------------
\* Properties of the commands of one export call

\* the cut commands the call has started
Cuts == {k \in DOMAIN log : log[k].kind = "cut"}

\* C22: the export handler never changes the list of ranges it received: from
\* the moment the list is read to the response, no step reorders, merges,
\* drops or edits a range, and the k-th cut command started is built from
\* exactly the k-th range of the request (its start and its duration), also
\* when the ranges overlap or are not sorted.
C22_CutListKept ==
    [][/\ pc \notin {"idle", "done"} => segments' = segments
       /\ \A k \in Cuts' :
             /\ k \in DOMAIN segments'
             /\ log'[k].seg = k - 1
             /\ log'[k].ss = Fmt4(segments'[k].in)
             /\ log'[k].t = Fmt4(segments'[k].out - segments'[k].in)]_vars

\* three ranges, not sorted and two of them the same, have all been cut
C22_Witness ==
    /\ Len(segments) = 3
    /\ segments[1].in > segments[2].in
    /\ segments[2] = segments[3]
    /\ Cuts = 1..3
    /\ Len(log) = 4

\* the number of 1/10000 s a rendered argument stands for, sign left out
Value(r) == r.whole * 10000 + r.frac[1] * 1000 + r.frac[2] * 100 + r.frac[3] * 10 + r.frac[4]

Abs(n) == IF n < 0 THEN -n ELSE n

\* r is x ticks written with a sign, a whole part and exactly four decimal
\* digits, and no number with four decimals is nearer to x
Renders(r, x) ==
    /\ Len(r.frac) = 4
    /\ \A d \in 1..4 : r.frac[d] \in 0..9
    /\ r.whole >= 0
    /\ r.neg = (x < 0)
    /\ 2 * Abs(Value(r) * TicksPerSecond - Abs(x) * 10000) <= TicksPerSecond

\* C23: for every range, in the single-segment command and in a per-segment
\* command, the start argument is "in" and the duration argument is out - in,
\* each written with exactly 4 decimal places; for in = 10.0 and out = 30.0 the
\* duration argument is exactly 20.0000.
C23_FourDecimals ==
    fmt_built # "none" =>
        /\ Renders(fmt_cmd.ss, fmt_seg.in)
        /\ Renders(fmt_cmd.t, fmt_seg.out - fmt_seg.in)
        /\ (fmt_seg.in = 10 * TicksPerSecond /\ fmt_seg.out = 30 * TicksPerSecond) =>
              fmt_cmd.t = [neg |-> FALSE, whole |-> 20, frac |-> <<0, 0, 0, 0>>]

\* the range from 10.0 to 30.0 has been built into a command
C23_Witness ==
    /\ fmt_built = "single"
    /\ fmt_seg = [in |-> 10 * TicksPerSecond, out |-> 30 * TicksPerSecond]
    /\ fmt_cmd.ss = [neg |-> FALSE, whole |-> 10, frac |-> <<0, 0, 0, 0>>]
    /\ fmt_cmd.t = [neg |-> FALSE, whole |-> 20, frac |-> <<0, 0, 0, 0>>]

\* C24: every export call eventually reaches Succeeded or Failed and has then
\* sent its one response, given that each external process exits or is
\* stopped by the timeout and that the output directory holds finitely many
\* files, so that the search for a free name ends.
C24_Terminates == (pc = "L228") ~> (Terminal /\ sent = 1)

\* a call that had to pass over two taken names, and whose second process
\* was stopped by the timeout, has answered
C24_Witness ==
    /\ Terminal
    /\ sent = 1
    /\ probes = 3
    /\ Len(ends) = 2
    /\ ends[2] = "timeout"

\* C25: in a multi-segment export, a segment whose process is stopped by the
\* timeout leaves what a segment that exits non-zero leaves: nothing started
\* after it, the temporary directory removed, an error response (500) that
\* names the segment; only the kind of error differs, being a timeout.
C25_TimeoutLikeNonZero ==
    \A k \in DOMAIN ends :
        (pc = "done" /\ Multi /\ log[k].kind = "cut" /\ ends[k] = "timeout") =>
            /\ Len(log) = k
            /\ temp_dir = "removed"
            /\ resp.status = 500
            /\ resp.seg = k
            /\ resp.error = "Timeout"

\* C26: the temporary directory is removed after the concatenation process
\* has exited and before the response is sent, whether the concatenation
\* exited with status zero or with a non-zero status.
C26_RemovedAfterConcat ==
    \A k \in DOMAIN log :
        log[k].kind = "concat" =>
            /\ temp_dir = "removed" => ends[k] # "running"
            /\ (ends[k] \in {"zero", "nonzero"} /\ sent > 0) => temp_dir = "removed"

\* the concatenation has exited non-zero and the error has been sent
C26_Witness ==
    /\ pc = "done"
    /\ log # <<>>
    /\ log[Len(log)].kind = "concat"
    /\ ends[Len(log)] = "nonzero"
    /\ resp.error = "Concat"
    /\ temp_dir = "removed"

\* C27: the concatenation command is a stream copy whatever the flip flag, and
\* in a multi-segment export it is the only command whose target is the final
\* output path; every per-segment command targets a file inside the temporary
\* directory.
C27_ConcatCopies ==
    \A k \in DOMAIN log :
        /\ log[k].kind = "concat" =>
              /\ log[k].codec = <<"-c", "copy">>
              /\ log[k].out = <<"output_dir", output_path>>
        /\ (Multi /\ log[k].kind = "cut") => log[k].out[1] = "temp_dir"
        /\ (Multi /\ log[k].out[1] = "output_dir") => log[k].kind = "concat"

\* a flipped export of two ranges has started its concatenation
C27_Witness ==
    /\ vflip
    /\ Len(segments) = 2
    /\ Len(log) = 3
    /\ log[3].kind = "concat"
    /\ HasPair(log[1].codec, "-c:v", "libx264")

\* C28: in a multi-segment export with N segments the intermediate file paths
\* are pairwise distinct, one per segment index and all inside the temporary
\* directory of this call, and the concatenation manifest lists exactly these
\* N paths, each once, in the order of the segment list.
C28_DistinctIntermediates ==
    Multi =>
        /\ \A j, k \in Cuts : j # k => log[j].out # log[k].out
        /\ Len(temp_files) = Cardinality(Cuts)
        /\ \A k \in Cuts :
              /\ log[k].out = temp_files[k]
              /\ log[k].out[1] = "temp_dir"
              /\ temp_dir = "exists" \/ ends[k] # "running"
        /\ (manifest # <<>> \/ \E k \in DOMAIN log : log[k].kind = "concat") =>
              /\ Len(manifest) = Len(segments)
              /\ \A k \in DOMAIN manifest : k \in Cuts /\ manifest[k] = log[k].out
              /\ \A j, k \in DOMAIN manifest : j # k => manifest[j] # manifest[k]

\* three segments have been cut and the manifest is written
C28_Witness ==
    /\ Len(segments) = 3
    /\ manifest = <<TempFile(0), TempFile(1), TempFile(2)>>
    /\ Len(log) = 4

\* C29: intermediate files and the temporary directory exist only during a
\* multi-segment export: while a temporary directory exists a multi-segment
\* export is under way; a single-segment export and a rejected (empty) one
\* create no temporary directory; and the transport-stream override (-f mpegts)
\* is on the per-segment commands of the multi-segment branch and on no other
\* command.
C29_TempOnlyInMulti ==
    /\ temp_dir = "exists" => (Multi /\ ~Terminal)
    /\ ~Multi => (temp_dir = "none" /\ temp_files = <<>> /\ manifest = <<>>)
    /\ \A k \in DOMAIN log : log[k].f = "mpegts" <=> (Multi /\ log[k].kind = "cut")

\* C30: every cut command, the single-segment one and each per-segment one,
\* with the flip flag on or off, carries -avoid_negative_ts make_zero.
C30_AvoidNegativeTs ==
    \A k \in Cuts : log[k].avoid_negative_ts

\* a flipped export of two ranges has started both of its cut commands
C30_Witness ==
    /\ vflip
    /\ Len(segments) = 2
    /\ Cuts = {1, 2}
    /\ log[1].avoid_negative_ts
    /\ log[2].avoid_negative_ts


----------------------------------------------------------------------------
\* Properties of the error message of a non-zero exit

\* C31: for every non-zero exit (single segment, per segment, concatenation)
\* the diagnostic text of the error is a suffix of the tool's diagnostic
\* output and has at most 300 characters, whatever the length of that output.
C31_BoundedTail ==
    err_site # "none" =>
        /\ err_text.len >= 0
        /\ err_text.len <= 300
        /\ err_text.first >= 0
        /\ err_text.first + err_text.len = stderr_len
        /\ stderr_len <= 300 => err_text.len = stderr_len

\* the concatenation failed with 5000 characters of diagnostics
C31_Witness ==
    /\ err_site = "concat"
    /\ stderr_len = 5000
    /\ err_text.first = 4700
    /\ err_text.len = 300


----------------------------------------------------------------------------
\* Properties of the command built from one range

\* no file has been made, removed or written
NoFileChanged ==
    /\ files = {}
    /\ written = "absent"
    /\ temp_dir = "none"
    /\ manifest = <<>>

----------------------------------------------------------------------------
\* Properties of the loop of a range response

\* one turn of the loop: what is asked of the read, and what follows it
LoopTurn ==
    (mpc = "L201" /\ (mpc' # mpc \/ reads' # reads)) =>
        IF remaining > 0
        THEN /\ Len(reads') = Len(reads) + 1
             /\ reads'[Len(reads')] <= 65536
             /\ reads'[Len(reads')] <= remaining
             /\ body' # body => (remaining' < remaining /\ remaining' >= 0 /\ mpc' = "L201")
             /\ body' = body => (remaining' = remaining /\ mpc' = "done")
        ELSE reads' = reads /\ body' = body /\ mpc' = "done"

\* C33: the loop of a range response ends for every request: each turn asks
\* for at most min(65536, remaining) bytes, remaining gets strictly smaller on
\* every read that is not empty, the loop stops when remaining is 0 or the
\* read gives nothing, and no read asks for more than 65536 bytes.
C33_RangeLoopEnds ==
    /\ [][LoopTurn]_vars
    /\ (mpc = "L201") ~> (mpc = "done")

\* a range of two read buffers and one byte has been sent in three reads
C33_Witness ==
    /\ mpc = "done"
    /\ http_status = 206
    /\ reads = <<ChunkSize, ChunkSize, 1>>
    /\ remaining = 0


\* C34: for every range request on an existing file, also one whose end is at
\* or past the size of the file, or whose start is after its end or at or past
\* the size of the file, the Content-Length declared is not negative and is
\* the number of body bytes the server sends.
C34_LengthIsBody ==
    (mpc = "done" /\ http_status = 206) =>
        /\ headers.content_length >= 0
        /\ headers.content_length = BytesIn(body)


----------------------------------------------------------------------------
\* Properties of the output path

\* C35: a failed export leaves no file at the output path it selected: when a
\* call has ended in Failed, after a non-zero exit of the single-segment
\* command or of the concatenation, or after the timeout of a command that
\* targets the output path, no file is at the selected path, so that the next
\* export of the same source selects the same name.
C35_FailedLeavesNothing ==
    (pc = "done" /\ resp.status # 200 /\ output_path # -1) => output_path \notin files


\* C36: no export targets the source file or a file that existed when the
\* output name was selected: the selected output path is never the path of
\* the source, and in the command built with it the source is the input and
\* the selected path the target.
C36_NeverTheSource ==
    nm_pc = "done" =>
        /\ output_name # SourceName
        /\ output_name \notin nm_files
        /\ \A flip \in BOOLEAN :
              LET cmd == SingleCmd([in |-> 0, out |-> 1], flip, output_name)
              IN  /\ cmd.input = "source"
                  /\ cmd.out = <<"output_dir", output_name>>
                  /\ cmd.out[2] # SourceName

\* the source a_cut.m, whose own name looks like an output name, with its two
\* first output names taken
C36_Witness ==
    /\ nm_pc = "done"
    /\ nm_source = [base |-> <<"a", "_", "c", "u", "t">>, ext |-> <<".", "m">>]
    /\ nm_counter = 3
    /\ output_name = <<"a", "_", "c", "u", "t", "_", "c", "u", "t", "_", "2", ".", "m">>


\* C37: two export requests for the same source and output directory never
\* have the same output path selected while both are in progress: the server
\* handles them one after the other, so a later call has selected no name
\* before every earlier call has finished.
C37_OneAfterTheOther ==
    \A c, d \in DOMAIN srv_calls :
        c < d =>
            /\ srv_calls[d].name # NoName => ~InProgress(srv_calls[c])
            /\ (/\ InProgress(srv_calls[c])
                /\ InProgress(srv_calls[d])
                /\ srv_calls[c].name # NoName)
                   => srv_calls[d].name # srv_calls[c].name

\* the first call has failed and left no file, and the second call, taken
\* after it, has selected the name the first one had
C37_Witness ==
    /\ Len(srv_calls) = 2
    /\ srv_calls[1].at = "done"
    /\ srv_calls[1].name = 0
    /\ 0 \notin srv_files
    /\ srv_calls[2].at = "L255"
    /\ srv_calls[2].name = 0


\* C38: after any sequence of set-in, set-out, select-all, add and load-video
\* operations, at any playhead position and any probed duration, 0 included,
\* whenever the in point and the out point are both set the out point is
\* after the in point.
C38_OutAfterIn ==
    (inPoint # NoPoint /\ outPoint # NoPoint) => outPoint > inPoint

\* C39: every range of the cut list has in >= 0 and out > in; an add appends
\* the selection only when both points are set and out is after in, and then
\* clears both points; any other add leaves the cut list and the selection as
\* they were.
C39_OnlyWholeRanges ==
    /\ [](\A k \in DOMAIN cutList : cutList[k].in >= 0 /\ cutList[k].out > cutList[k].in)
    /\ [][lastOp' = "add" =>
            IF inPoint # NoPoint /\ outPoint # NoPoint /\ outPoint > inPoint
            THEN /\ Len(cutList') = Len(cutList) + 1
                 /\ \E k \in DOMAIN cutList' :
                       /\ cutList'[k] = [in |-> inPoint, out |-> outPoint]
                       /\ SubSeq(cutList', 1, k - 1) \o SubSeq(cutList', k + 1, Len(cutList'))
                             = cutList
                 /\ inPoint' = NoPoint
                 /\ outPoint' = NoPoint
            ELSE UNCHANGED <<cutList, inPoint, outPoint>>]_vars

\* an add was refused for a selection whose out point is not after its in
\* point (select-all on a video of duration 0), after an add that was taken
C39_Witness ==
    /\ lastOp = "add"
    /\ cutList = <<[in |-> 0, out |-> 1]>>
    /\ inPoint = 0
    /\ outPoint = 0

\* C40: every export request the page sends carries a non-empty segment list
\* in which every range has a numeric in and out with out > in, whatever
\* happens between the opening of the export dialog and its confirmation.
C40_RequestWellFormed ==
    request.sent =>
        /\ request.segments # <<>>
        /\ \A k \in DOMAIN request.segments :
              /\ request.segments[k].in # NoPoint
              /\ request.segments[k].out # NoPoint
              /\ request.segments[k].out > request.segments[k].in

=============================================================================
